---- MODULE Spec2Model ----
(***************************************************************************)
(* Model of the spec-driven RIFF/WAVE chunk parser of src/bin/ffmpegwav.rs *)
(* (read_simple_field and parse_wav).  A parse is a state machine over a   *)
(* byte source: one action per block of parse_wav, one step per field of   *)
(* the chunk spec being decoded.                                           *)
(***************************************************************************)
EXTENDS Integers, Sequences, FiniteSets, TLC

VARIABLES
    input,               \* the bytes written for the byte source
    cut,                 \* how many trailing bytes of input the source lacks
    pc,                  \* position in parse_wav
    pos,                 \* bytes read from the source so far (the cursor)
    current_chunk_id,
    current_chunk_size,
    remaining_global,
    unknown_i,
    prefix,
    spec,
    field_idx,
    remaining_in_chunk,
    out,                 \* the HashMap being filled
    result,              \* what parse_wav returned, NoResult while it runs
    chunk_budget,        \* remaining_global when the current chunk's body began
    chunk_start,         \* cursor position where the current chunk's body began
    passes               \* passes of the walk loop begun so far

vars == << input, cut, pc, pos, current_chunk_id, current_chunk_size,
           remaining_global, unknown_i, prefix, spec, field_idx,
           remaining_in_chunk, out, result, chunk_budget, chunk_start,
           passes >>

-----------------------------------------------------------------------------
(* Bytes, tags and little-endian conversions *)

TagRIFF == << 82, 73, 70, 70 >>
TagWAVE == << 87, 65, 86, 69 >>
TagFmt  == << 102, 109, 116, 32 >>
TagData == << 100, 97, 116, 97 >>
TagLIST == << 76, 73, 83, 84 >>
TagJUNK == << 74, 85, 78, 75 >>
TagXXXX == << 88, 88, 88, 88 >>
TagZero == << 0, 0, 0, 0 >>

\* u16::from_le_bytes
U16FromLe(b) == b[1] + 256 * b[2]

\* u32::from_le_bytes
U32FromLe(b) == b[1] + 256 * b[2] + 65536 * b[3] + 16777216 * b[4]

\* a decoder that takes the two bytes as an unsigned value
I16FromLeUnsigned(b) == b[1] + 256 * b[2]

\* i16::from_le_bytes: two's complement of the 16-bit little-endian value
I16FromLe(b) ==
    LET u == b[1] + 256 * b[2]
    IN  IF u >= 32768 THEN u - 65536 ELSE u

\* the inverse, used to write inputs
U16ToLe(n) == << n % 256, (n \div 256) % 256 >>
U32ToLe(n) == << n % 256, (n \div 256) % 256, (n \div 65536) % 256,
                 (n \div 16777216) % 256 >>

-----------------------------------------------------------------------------
(* The chunk spec tables *)

HEADER_SPEC ==
    << << "riff_id", "[u8;4]" >>, << "riff_size", "u32" >>,
       << "wave_id", "[u8;4]" >> >>

\* a format spec that stops after the 16 fixed bytes
FMT_CHUNK_SPEC_FIXED ==
    << << "chunk_id", "[u8;4]" >>, << "chunk_size", "u32" >>,
       << "audio_format", "u16" >>, << "num_channels", "u16" >>,
       << "sample_rate", "u32" >>, << "byte_rate", "u32" >>,
       << "block_align", "u16" >>, << "bits_per_sample", "u16" >> >>

FMT_CHUNK_SPEC ==
    << << "chunk_id", "[u8;4]" >>, << "chunk_size", "u32" >>,
       << "audio_format", "u16" >>, << "num_channels", "u16" >>,
       << "sample_rate", "u32" >>, << "byte_rate", "u32" >>,
       << "block_align", "u16" >>, << "bits_per_sample", "u16" >>,
       << "extra_bytes", "Vec<u8>" >> >>

DATA_CHUNK_SPEC ==
    << << "chunk_id", "[u8;4]" >>, << "chunk_size", "u32" >>,
       << "samples", "Vec<i16>" >> >>

LIST_CHUNK_SPEC ==
    << << "chunk_id", "[u8;4]" >>, << "chunk_size", "u32" >>,
       << "list_type", "[u8;4]" >>, << "entries", "Vec<LIST_ENTRY_SPEC>" >> >>

UNKNOWN_CHUNK_SPEC ==
    << << "chunk_id", "[u8;4]" >>, << "chunk_size", "u32" >>,
       << "raw_payload", "Vec<u8>" >> >>

-----------------------------------------------------------------------------
(* ParsedValue, io::Error and the byte source *)

Bytes4(b)   == [kind |-> "Bytes4", bytes |-> b]
U16(n)      == [kind |-> "U16", n |-> n]
U32(n)      == [kind |-> "U32", n |-> n]
Bytes(b)    == [kind |-> "Bytes", bytes |-> b]
I16Vec(s)   == [kind |-> "I16Vec", samples |-> s]

IoError(kind, msg) == [kind |-> kind, msg |-> msg]

NoResult == [tag |-> "None"]
Ok(store) == [tag |-> "Ok", store |-> store]
Err(e)    == [tag |-> "Err", error |-> e]

\* a reader that lets a read run one byte past the end of the source and
\* yields 0 for the missing byte
ReadExactOffByOne(src, p, n) ==
    IF p + n <= Len(src) + 1
    THEN [ok |-> TRUE, buf |-> SubSeq(src \o << 0 >>, p + 1, p + n),
          pos |-> p + n]
    ELSE [ok |-> FALSE, pos |-> Len(src),
          error |-> IoError("UnexpectedEof", "failed to fill whole buffer")]

\* Read::read_exact of n bytes at cursor p: all n bytes, or UnexpectedEof
\* with the source drained.
ReadExact(src, p, n) ==
    IF p + n <= Len(src)
    THEN [ok |-> TRUE, buf |-> SubSeq(src, p + 1, p + n), pos |-> p + n]
    ELSE [ok |-> FALSE, pos |-> Len(src),
          error |-> IoError("UnexpectedEof", "failed to fill whole buffer")]

\* the pairs of a byte buffer, buf.chunks_exact(2)
ChunksExact2(buf) ==
    [i \in 1..(Len(buf) \div 2) |-> << buf[2 * i - 1], buf[2 * i] >>]

-----------------------------------------------------------------------------
(* read_simple_field *)

\* Decodes one field of type ftype at cursor p.  Returns the value, the
\* chunk budget left after it and the new cursor, or the error.
ReadSimpleField(ftype, src, p, rem_in_chunk, chunk_id_already, chunk_size_already, idx) ==
    IF idx = 0 /\ ftype = "[u8;4]"
    THEN [ok |-> TRUE, val |-> Bytes4(chunk_id_already),
          after |-> rem_in_chunk, pos |-> p]
    ELSE IF idx = 1 /\ ftype = "u32"
    THEN [ok |-> TRUE, val |-> U32(chunk_size_already),
          after |-> rem_in_chunk, pos |-> p]
    ELSE IF ftype = "[u8;4]"
    THEN IF rem_in_chunk < 4
         THEN [ok |-> FALSE, pos |-> p,
               error |-> IoError("UnexpectedEof",
                                 "not enough bytes left in chunk for [u8;4]")]
         ELSE LET r == ReadExact(src, p, 4)
              IN  IF ~r.ok THEN r
                  ELSE [ok |-> TRUE, val |-> Bytes4(r.buf),
                        after |-> rem_in_chunk - 4, pos |-> r.pos]
    ELSE IF ftype = "u16"
    THEN IF rem_in_chunk < 2
         THEN [ok |-> FALSE, pos |-> p,
               error |-> IoError("UnexpectedEof",
                                 "not enough bytes left in chunk for u16")]
         ELSE LET r == ReadExact(src, p, 2)
              IN  IF ~r.ok THEN r
                  ELSE [ok |-> TRUE, val |-> U16(U16FromLe(r.buf)),
                        after |-> rem_in_chunk - 2, pos |-> r.pos]
    ELSE IF ftype = "u32"
    THEN IF rem_in_chunk < 4
         THEN [ok |-> FALSE, pos |-> p,
               error |-> IoError("UnexpectedEof",
                                 "not enough bytes left in chunk for u32")]
         ELSE LET r == ReadExact(src, p, 4)
              IN  IF ~r.ok THEN r
                  ELSE [ok |-> TRUE, val |-> U32(U32FromLe(r.buf)),
                        after |-> rem_in_chunk - 4, pos |-> r.pos]
    ELSE IF ftype = "Vec<u8>"
    THEN LET r == ReadExact(src, p, rem_in_chunk)
         IN  IF ~r.ok THEN r
             ELSE [ok |-> TRUE, val |-> Bytes(r.buf), after |-> 0,
                   pos |-> r.pos]
    ELSE IF ftype = "Vec<i16>"
    THEN LET r == ReadExact(src, p, rem_in_chunk)
         IN  IF ~r.ok THEN r
             ELSE IF Len(r.buf) % 2 # 0
             THEN [ok |-> FALSE, pos |-> r.pos,
                   error |-> IoError("InvalidData",
                                     "odd number of bytes for Vec<i16>")]
             ELSE LET pairs == ChunksExact2(r.buf)
                  IN  [ok |-> TRUE,
                       val |-> I16Vec([i \in 1..Len(pairs) |->
                                          I16FromLe(pairs[i])]),
                       after |-> 0, pos |-> r.pos]
    ELSE [ok |-> FALSE, pos |-> p,
          error |-> IoError("InvalidInput",
                            "unsupported field type " \o ftype)]

-----------------------------------------------------------------------------
(* parse_wav, block by block, as functions of the parse state *)

EmptyStore == [k \in {} |-> NoResult]

\* HashMap::insert: the last write for a key wins
Insert(store, key, val) ==
    [k \in DOMAIN store \cup {key} |-> IF k = key THEN val ELSE store[k]]

\* format!("{}.{}", prefix, fname)
Key(pfx, fname) == pfx \o "." \o fname

\* the state of parse_wav before its first read
Start ==
    [pc |-> "start", pos |-> 0, current_chunk_id |-> TagZero,
     current_chunk_size |-> 0, remaining_global |-> 0, unknown_i |-> 0,
     prefix |-> "", spec |-> << >>, field_idx |-> 0,
     remaining_in_chunk |-> 0, out |-> EmptyStore, result |-> NoResult,
     chunk_budget |-> 0, chunk_start |-> 0, passes |-> 0]

\* a failure that records the error and goes on to the final check
FailAndGoOn(s, p, e) == [s EXCEPT !.pc = "final", !.pos = p, !.result = Err(e)]

\* an early return Err(e), the cursor left at p
Fail(s, p, e) == [s EXCEPT !.pc = "done", !.pos = p, !.result = Err(e)]

\* lines 166-176: the outer tag and size, read with no budget check
DoReadOuterHeader(s, src) ==
    LET id == ReadExact(src, s.pos, 4)
    IN  IF ~id.ok THEN Fail(s, id.pos, id.error)
        ELSE LET sz == ReadExact(src, id.pos, 4)
             IN  IF ~sz.ok THEN Fail(s, sz.pos, sz.error)
                 ELSE [s EXCEPT !.pc = "while", !.pos = sz.pos,
                                !.current_chunk_id = id.buf,
                                !.current_chunk_size = U32FromLe(sz.buf),
                                !.remaining_global = U32FromLe(sz.buf),
                                !.unknown_i = 0,
                                !.chunk_budget = U32FromLe(sz.buf),
                                !.chunk_start = sz.pos]

\* a dispatch that reuses the ordinal: unknown_i is not incremented
SelectSpecNoIncrement(id, unk) ==
    IF id = TagRIFF
    THEN [prefix |-> "header", spec |-> HEADER_SPEC, unknown_i |-> unk]
    ELSE IF id = TagFmt
    THEN [prefix |-> "fmt", spec |-> FMT_CHUNK_SPEC, unknown_i |-> unk]
    ELSE IF id = TagData
    THEN [prefix |-> "data", spec |-> DATA_CHUNK_SPEC, unknown_i |-> unk]
    ELSE [prefix |-> "unknown" \o ToString(unk), spec |-> UNKNOWN_CHUNK_SPEC,
          unknown_i |-> unk]

\* a dispatch with the LIST arm of line 183 in force
SelectSpecWithList(id, unk) ==
    IF id = TagRIFF
    THEN [prefix |-> "header", spec |-> HEADER_SPEC, unknown_i |-> unk]
    ELSE IF id = TagFmt
    THEN [prefix |-> "fmt", spec |-> FMT_CHUNK_SPEC, unknown_i |-> unk]
    ELSE IF id = TagData
    THEN [prefix |-> "data", spec |-> DATA_CHUNK_SPEC, unknown_i |-> unk]
    ELSE IF id = TagLIST
    THEN [prefix |-> "list", spec |-> LIST_CHUNK_SPEC, unknown_i |-> unk]
    ELSE [prefix |-> "unknown" \o ToString(unk), spec |-> UNKNOWN_CHUNK_SPEC,
          unknown_i |-> unk + 1]

\* lines 179-189: the spec and prefix for a tag
SelectSpec(id, unk) ==
    IF id = TagRIFF
    THEN [prefix |-> "header", spec |-> HEADER_SPEC, unknown_i |-> unk]
    ELSE IF id = TagFmt
    THEN [prefix |-> "fmt", spec |-> FMT_CHUNK_SPEC, unknown_i |-> unk]
    ELSE IF id = TagData
    THEN [prefix |-> "data", spec |-> DATA_CHUNK_SPEC, unknown_i |-> unk]
    ELSE [prefix |-> "unknown" \o ToString(unk), spec |-> UNKNOWN_CHUNK_SPEC,
          unknown_i |-> unk + 1]

\* a loop that validates the outer tag as soon as it enters the first chunk
DoWhileValidating(s) ==
    IF s.remaining_global > 0
    THEN IF s.chunk_start = 8 /\ s.current_chunk_id # TagRIFF
         THEN Fail(s, s.pos, IoError("InvalidData", "Not a RIFF/WAVE file"))
         ELSE LET sel == SelectSpec(s.current_chunk_id, s.unknown_i)
              IN  [s EXCEPT !.pc = "field", !.prefix = sel.prefix,
                            !.spec = sel.spec, !.unknown_i = sel.unknown_i,
                            !.remaining_in_chunk = s.current_chunk_size,
                            !.field_idx = 0, !.passes = s.passes + 1]
    ELSE [s EXCEPT !.pc = "final"]

\* lines 178-191: the loop test, then the dispatch on the current tag
DoWhile(s) ==
    IF s.remaining_global > 0
    THEN LET sel == SelectSpec(s.current_chunk_id, s.unknown_i)
         IN  [s EXCEPT !.pc = "field", !.prefix = sel.prefix,
                       !.spec = sel.spec, !.unknown_i = sel.unknown_i,
                       !.remaining_in_chunk = s.current_chunk_size,
                       !.field_idx = 0, !.passes = s.passes + 1]
    ELSE [s EXCEPT !.pc = "final"]

\* a field loop that numbers the fields from 1 when it calls the decoder
DoFieldOneBased(s, src) ==
    LET fname == s.spec[s.field_idx + 1][1]
        ftype == s.spec[s.field_idx + 1][2]
        before == s.remaining_in_chunk
        r == ReadSimpleField(ftype, src, s.pos, s.remaining_in_chunk,
                             s.current_chunk_id, s.current_chunk_size,
                             s.field_idx + 1)
    IN  IF ~r.ok THEN Fail(s, r.pos, r.error)
        ELSE LET used == before - r.after
                 t == [s EXCEPT !.out = Insert(s.out, Key(s.prefix, fname),
                                               r.val),
                                !.remaining_in_chunk = r.after]
             IN  IF used > s.remaining_global
                 THEN Fail(t, r.pos,
                           IoError("InvalidData",
                                   "field overran RIFF remaining bytes"))
                 ELSE [t EXCEPT !.pos = r.pos,
                                !.remaining_global = s.remaining_global - used,
                                !.field_idx = s.field_idx + 1,
                                !.pc = IF s.field_idx + 1 = Len(s.spec)
                                       THEN "chunk_end" ELSE "field"]

\* a field loop that reads the container's own fields without charging
\* them to the global budget
DoFieldHeaderFree(s, src) ==
    LET fname == s.spec[s.field_idx + 1][1]
        ftype == s.spec[s.field_idx + 1][2]
        before == s.remaining_in_chunk
        r == ReadSimpleField(ftype, src, s.pos, s.remaining_in_chunk,
                             s.current_chunk_id, s.current_chunk_size,
                             s.field_idx)
    IN  IF ~r.ok THEN Fail(s, r.pos, r.error)
        ELSE LET used == IF s.prefix = "header" THEN 0 ELSE before - r.after
                 t == [s EXCEPT !.out = Insert(s.out, Key(s.prefix, fname),
                                               r.val),
                                !.remaining_in_chunk = r.after]
             IN  IF used > s.remaining_global
                 THEN Fail(t, r.pos,
                           IoError("InvalidData",
                                   "field overran RIFF remaining bytes"))
                 ELSE [t EXCEPT !.pos = r.pos,
                                !.remaining_global = s.remaining_global - used,
                                !.field_idx = s.field_idx + 1,
                                !.pc = IF s.field_idx + 1 = Len(s.spec)
                                       THEN "chunk_end" ELSE "field"]

\* lines 193-217: one pass of the field loop
DoField(s, src) ==
    LET fname == s.spec[s.field_idx + 1][1]
        ftype == s.spec[s.field_idx + 1][2]
        before == s.remaining_in_chunk
        r == ReadSimpleField(ftype, src, s.pos, s.remaining_in_chunk,
                             s.current_chunk_id, s.current_chunk_size,
                             s.field_idx)
    IN  IF ~r.ok THEN Fail(s, r.pos, r.error)
        ELSE LET used == before - r.after
                 t == [s EXCEPT !.out = Insert(s.out, Key(s.prefix, fname),
                                               r.val),
                                !.remaining_in_chunk = r.after]
             IN  IF used > s.remaining_global
                 THEN Fail(t, r.pos,
                           IoError("InvalidData",
                                   "field overran RIFF remaining bytes"))
                 ELSE [t EXCEPT !.pos = r.pos,
                                !.remaining_global = s.remaining_global - used,
                                !.field_idx = s.field_idx + 1,
                                !.pc = IF s.field_idx + 1 = Len(s.spec)
                                       THEN "chunk_end" ELSE "field"]

\* a loop that breaks as soon as no whole chunk header fits the budget
AfterChunkNoRoom(s) ==
    [s EXCEPT !.pc = IF s.remaining_global < 8 THEN "final" ELSE "next"]

\* lines 243-245: break when the global budget is spent
AfterChunk(s) ==
    [s EXCEPT !.pc = IF s.remaining_global = 0 THEN "final" ELSE "next"]

\* a chunk end that checks the leftover but skips no pad byte
DoChunkEndNoPad(s, src) ==
    IF s.prefix # "header" /\ s.remaining_in_chunk # 0
    THEN Fail(s, s.pos,
              IoError("InvalidData",
                      "chunk " \o s.prefix \o ": "
                        \o ToString(s.remaining_in_chunk)
                        \o " leftover bytes not parsed"))
    ELSE AfterChunk(s)

\* lines 219-245: the leftover check and the pad byte of a non-header chunk
DoChunkEnd(s, src) ==
    IF s.prefix # "header"
    THEN IF s.remaining_in_chunk # 0
         THEN Fail(s, s.pos,
                   IoError("InvalidData",
                           "chunk " \o s.prefix \o ": "
                             \o ToString(s.remaining_in_chunk)
                             \o " leftover bytes not parsed"))
         ELSE IF s.current_chunk_size % 2 = 1
         THEN LET pad == ReadExact(src, s.pos, 1)
              IN  IF ~pad.ok THEN Fail(s, pad.pos, pad.error)
                  ELSE IF s.remaining_global = 0
                  THEN Fail(s, pad.pos,
                            IoError("InvalidData",
                                    "ran out of RIFF budget reading padding byte"))
                  ELSE AfterChunk([s EXCEPT !.pos = pad.pos,
                                            !.remaining_global =
                                                s.remaining_global - 1])
         ELSE AfterChunk(s)
    ELSE AfterChunk(s)

\* a header charge that saturates at 0 instead of failing
DoNextHeaderClamped(s, src) ==
    LET id == ReadExact(src, s.pos, 4)
    IN  IF ~id.ok THEN Fail(s, id.pos, id.error)
        ELSE LET sz == ReadExact(src, id.pos, 4)
                 left == IF s.remaining_global < 8 THEN 0
                         ELSE s.remaining_global - 8
             IN  IF ~sz.ok THEN Fail(s, sz.pos, sz.error)
                 ELSE [s EXCEPT !.pc = "while", !.pos = sz.pos,
                                !.remaining_global = left,
                                !.current_chunk_id = id.buf,
                                !.current_chunk_size = U32FromLe(sz.buf),
                                !.chunk_budget = left,
                                !.chunk_start = sz.pos]

\* a next header that is read but not charged to the global budget
DoNextHeaderUncharged(s, src) ==
    LET id == ReadExact(src, s.pos, 4)
    IN  IF ~id.ok THEN Fail(s, id.pos, id.error)
        ELSE LET sz == ReadExact(src, id.pos, 4)
             IN  IF ~sz.ok THEN Fail(s, sz.pos, sz.error)
                 ELSE IF s.remaining_global < 8
                 THEN Fail(s, sz.pos,
                           IoError("InvalidData",
                                   "chunk header overruns RIFF remaining bytes"))
                 ELSE [s EXCEPT !.pc = "while", !.pos = sz.pos,
                                !.current_chunk_id = id.buf,
                                !.current_chunk_size = U32FromLe(sz.buf),
                                !.chunk_budget = s.remaining_global,
                                !.chunk_start = sz.pos]

\* lines 247-263: the next chunk header, read and then charged
DoNextHeader(s, src) ==
    LET id == ReadExact(src, s.pos, 4)
    IN  IF ~id.ok THEN Fail(s, id.pos, id.error)
        ELSE LET sz == ReadExact(src, id.pos, 4)
             IN  IF ~sz.ok THEN Fail(s, sz.pos, sz.error)
                 ELSE IF s.remaining_global < 8
                 THEN Fail(s, sz.pos,
                           IoError("InvalidData",
                                   "chunk header overruns RIFF remaining bytes"))
                 ELSE [s EXCEPT !.pc = "while", !.pos = sz.pos,
                                !.remaining_global = s.remaining_global - 8,
                                !.current_chunk_id = id.buf,
                                !.current_chunk_size = U32FromLe(sz.buf),
                                !.chunk_budget = s.remaining_global - 8,
                                !.chunk_start = sz.pos]

\* lines 266-277: the RIFF/WAVE check on the store, then Ok(out)
DoFinalCheck(s) ==
    IF ~(/\ "header.riff_id" \in DOMAIN s.out
         /\ s.out["header.riff_id"].kind = "Bytes4"
         /\ s.out["header.riff_id"].bytes = TagRIFF
         /\ "header.wave_id" \in DOMAIN s.out
         /\ s.out["header.wave_id"].kind = "Bytes4"
         /\ s.out["header.wave_id"].bytes = TagWAVE)
    THEN Fail(s, s.pos, IoError("InvalidData", "Not a RIFF/WAVE file"))
    ELSE [s EXCEPT !.pc = "done", !.result = Ok(s.out)]

\* one step of parse_wav from state s
StepOf(s, src) ==
    CASE s.pc = "start"     -> DoReadOuterHeader(s, src)
      [] s.pc = "while"     -> DoWhile(s)
      [] s.pc = "field"     -> DoField(s, src)
      [] s.pc = "chunk_end" -> DoChunkEnd(s, src)
      [] s.pc = "next"      -> DoNextHeader(s, src)
      [] s.pc = "final"     -> DoFinalCheck(s)
      [] OTHER              -> s

\* parse_wav run to its return
RECURSIVE RunFrom(_, _)
RunFrom(s, src) == IF s.pc = "done" THEN s ELSE RunFrom(StepOf(s, src), src)

ParseWav(src) == RunFrom(Start, src).result

-----------------------------------------------------------------------------
(* The byte sources a parse is run on *)

MaxChunks == 2
MaxSlack == 4

\* tag + little-endian u32 size + body, as written to a file
Chunk(tag, declared, body) == tag \o U32ToLe(declared) \o body

\* the 16 fixed bytes of a format chunk: PCM, 1 channel, 44100 Hz, 16 bit
FmtBody ==
    U16ToLe(1) \o U16ToLe(1) \o U32ToLe(44100) \o U32ToLe(88200)
      \o U16ToLe(2) \o U16ToLe(16)

ChunkKinds ==
    { Chunk(TagFmt, 16, FmtBody),
      Chunk(TagFmt, 18, FmtBody \o << 0, 0 >>),
      Chunk(TagFmt, 4, << 1, 0, 1, 0 >>),
      Chunk(TagData, 0, << >>),
      Chunk(TagData, 4, << 1, 0, 2, 0 >>),
      Chunk(TagData, 2, << 255, 255 >>),
      Chunk(TagData, 3, << 1, 0, 2, 0 >>),
      Chunk(TagJUNK, 1, << 7, 0 >>),
      Chunk(TagJUNK, 2, << 7, 8 >>),
      Chunk(TagLIST, 4, << 73, 78, 70, 79 >>),
      Chunk(TagRIFF, 4, TagWAVE),
      Chunk(TagRIFF, 5, TagWAVE \o << 9 >>) }

RECURSIVE Concat(_)
Concat(ss) == IF ss = << >> THEN << >> ELSE Head(ss) \o Concat(Tail(ss))

ChunkLists == UNION { [1..n -> ChunkKinds] : n \in 0..MaxChunks }

\* outer tag + declared size + sub-format tag + the chunks; the declared
\* size is what follows the first 8 bytes, off by slack (a negative slack
\* leaves bytes in the source past the declared end)
Container(tag, sub, chunks, slack) ==
    LET rest == sub \o Concat(chunks)
        declared == IF Len(rest) + slack < 0 THEN 0 ELSE Len(rest) + slack
    IN  tag \o U32ToLe(declared) \o rest

Inputs ==
    { Container(TagRIFF, TagWAVE, cs, k) :
          cs \in ChunkLists, k \in (0 - MaxSlack)..MaxSlack }
    \cup { Container(o[1], o[2], cs, 0) :
               o \in { << TagRIFF, TagXXXX >>, << TagJUNK, TagWAVE >>,
                       << TagFmt, TagWAVE >> },
               cs \in ChunkLists }

\* what the byte source holds: the input, less its last byte when cut = 1
Source == SubSeq(input, 1, Len(input) - cut)

-----------------------------------------------------------------------------
(* The state machine *)

Cur ==
    [pc |-> pc, pos |-> pos, current_chunk_id |-> current_chunk_id,
     current_chunk_size |-> current_chunk_size,
     remaining_global |-> remaining_global, unknown_i |-> unknown_i,
     prefix |-> prefix, spec |-> spec, field_idx |-> field_idx,
     remaining_in_chunk |-> remaining_in_chunk, out |-> out,
     result |-> result, chunk_budget |-> chunk_budget,
     chunk_start |-> chunk_start, passes |-> passes]

Apply(t) ==
    /\ pc' = t.pc
    /\ pos' = t.pos
    /\ current_chunk_id' = t.current_chunk_id
    /\ current_chunk_size' = t.current_chunk_size
    /\ remaining_global' = t.remaining_global
    /\ unknown_i' = t.unknown_i
    /\ prefix' = t.prefix
    /\ spec' = t.spec
    /\ field_idx' = t.field_idx
    /\ remaining_in_chunk' = t.remaining_in_chunk
    /\ out' = t.out
    /\ result' = t.result
    /\ chunk_budget' = t.chunk_budget
    /\ chunk_start' = t.chunk_start
    /\ passes' = t.passes
    /\ UNCHANGED << input, cut >>

Init ==
    /\ input \in Inputs
    /\ cut \in {0, 1}
    /\ pc = Start.pc
    /\ pos = Start.pos
    /\ current_chunk_id = Start.current_chunk_id
    /\ current_chunk_size = Start.current_chunk_size
    /\ remaining_global = Start.remaining_global
    /\ unknown_i = Start.unknown_i
    /\ prefix = Start.prefix
    /\ spec = Start.spec
    /\ field_idx = Start.field_idx
    /\ remaining_in_chunk = Start.remaining_in_chunk
    /\ out = Start.out
    /\ result = Start.result
    /\ chunk_budget = Start.chunk_budget
    /\ chunk_start = Start.chunk_start
    /\ passes = Start.passes

ReadOuterHeader == pc = "start" /\ Apply(DoReadOuterHeader(Cur, Source))

While == pc = "while" /\ Apply(DoWhile(Cur))

Field == pc = "field" /\ Apply(DoField(Cur, Source))

ChunkEnd == pc = "chunk_end" /\ Apply(DoChunkEnd(Cur, Source))

NextHeader == pc = "next" /\ Apply(DoNextHeader(Cur, Source))

FinalCheck == pc = "final" /\ Apply(DoFinalCheck(Cur))

Next ==
    \/ ReadOuterHeader
    \/ While
    \/ Field
    \/ ChunkEnd
    \/ NextHeader
    \/ FinalCheck

Spec == Init /\ [][Next]_vars

-----------------------------------------------------------------------------
(* Vocabulary of the properties *)

\* the error classes of the specification, by io::ErrorKind and message
ErrorClass(e) ==
    IF e.kind = "UnexpectedEof" THEN "TruncatedInput"
    ELSE IF e.kind = "InvalidInput" THEN "MalformedPayload"
    ELSE IF e.msg = "odd number of bytes for Vec<i16>" THEN "MalformedPayload"
    ELSE IF e.msg = "Not a RIFF/WAVE file" THEN "NotRiffWave"
    ELSE IF e.msg \in { "field overran RIFF remaining bytes",
                        "ran out of RIFF budget reading padding byte",
                        "chunk header overruns RIFF remaining bytes" }
    THEN "BudgetExceeded"
    ELSE "UnconsumedChunkBytes"

Succeeded == pc = "done" /\ result.tag = "Ok"
Failed    == pc = "done" /\ result.tag = "Err"
FailedAs(class) == Failed /\ ErrorClass(result.error) = class

\* the outer header as the source holds it (every source has its 8 bytes)
DeclaredOuterSize == U32FromLe(SubSeq(Source, 5, 8))
OuterTag == SubSeq(Source, 1, 4)
OuterSubFormat == SubSeq(Source, 9, 12)

\* the chunk whose header was read last is not the outer container
InnerChunk == chunk_start > 8

\* the 44-byte minimal WAV
MinimalWav ==
    Container(TagRIFF, TagWAVE,
              << Chunk(TagFmt, 16, FmtBody), Chunk(TagData, 0, << >>) >>, 0)

Has(store, key, val) == key \in DOMAIN store /\ store[key] = val

-----------------------------------------------------------------------------
(* C1..C10 *)

\* C1: the 44-byte minimal WAV parses to a store holding header.riff_id =
\* RIFF, header.wave_id = WAVE, fmt.sample_rate = 44100, fmt.num_channels =
\* 1, fmt.bits_per_sample = 16 and data.samples = []; and whenever a parse
\* succeeds with a last chunk header declaring size 0, every field of that
\* chunk's spec is in the returned store.
C1_MinimalWavStore ==
    /\ (pc = "done" /\ input = MinimalWav /\ cut = 0) =>
          /\ result.tag = "Ok"
          /\ Has(result.store, "header.riff_id", Bytes4(TagRIFF))
          /\ Has(result.store, "header.wave_id", Bytes4(TagWAVE))
          /\ Has(result.store, "fmt.sample_rate", U32(44100))
          /\ Has(result.store, "fmt.num_channels", U16(1))
          /\ Has(result.store, "fmt.bits_per_sample", U16(16))
          /\ Has(result.store, "data.samples", I16Vec(<< >>))
    /\ (Succeeded /\ InnerChunk /\ current_chunk_size = 0) =>
          LET sel == SelectSpec(current_chunk_id, 0)
          IN  \A i \in 1..Len(sel.spec) :
                  \E k \in DOMAIN result.store :
                      /\ k = Key(prefix, sel.spec[i][1])
                      /\ prefix # "header"

\* C2: when the walk loop exits remaining_global is 0, and a successful
\* parse has read exactly the declared outer size plus 8 bytes.
C2_SuccessConsumesDeclared ==
    /\ pc = "final" => remaining_global = 0
    /\ Succeeded => /\ remaining_global = 0
                    /\ pos = DeclaredOuterSize + 8

C2_Witness ==
    /\ Succeeded
    /\ pos = DeclaredOuterSize + 8
    /\ "fmt.sample_rate" \in DOMAIN out
    /\ "unknown0.raw_payload" \in DOMAIN out
    /\ out["unknown0.chunk_size"].n = 1

\* C3: a source whose outer tag is not RIFF or whose sub-format tag is not
\* WAVE never parses successfully, and when its walk ends without an error
\* the final check returns NotRiffWave.
C3_BadOuterRejected ==
    (Len(Source) >= 12 /\ (OuterTag # TagRIFF \/ OuterSubFormat # TagWAVE)) =>
        /\ ~Succeeded
        /\ pc = "final" =>
              LET t == DoFinalCheck(Cur)
              IN  /\ t.result.tag = "Err"
                  /\ ErrorClass(t.result.error) = "NotRiffWave"

\* C4: when the fields of a chunk other than the outer container are all
\* decoded, the bytes they used equal the declared size and
\* remaining_in_chunk is 0, or else the parse fails with
\* UnconsumedChunkBytes.
C4_ChunkExactlyConsumed ==
    (pc = "chunk_end" /\ InnerChunk) =>
        \/ /\ remaining_in_chunk = 0
           /\ pos - chunk_start = current_chunk_size
        \/ LET t == DoChunkEnd(Cur, Source)
           IN  /\ t.result.tag = "Err"
               /\ ErrorClass(t.result.error) = "UnconsumedChunkBytes"

\* C5: after the fields of a chunk other than the outer container, a parse
\* that goes on has read one pad byte and charged 1 to remaining_global
\* when the declared size is odd, and has read and charged nothing when it
\* is even.
C5_PadFollowsOddChunk ==
    (pc = "chunk_end" /\ InnerChunk) =>
        LET t == DoChunkEnd(Cur, Source)
            n == IF current_chunk_size % 2 = 1 THEN 1 ELSE 0
        IN  t.result.tag # "Err" =>
                /\ t.pos = pos + n
                /\ t.remaining_global = remaining_global - n

\* C6: a parse that has read a 'fmt ' chunk header declaring fewer than 16
\* bytes fails with TruncatedInput or BudgetExceeded.
C6_ShortFmtRejected ==
    (pc = "done" /\ current_chunk_id = TagFmt /\ current_chunk_size < 16) =>
        /\ result.tag = "Err"
        /\ ErrorClass(result.error) \in { "TruncatedInput", "BudgetExceeded" }

\* C7: a parse that has read a 'data' chunk header declaring an odd size,
\* on a source that holds that many body bytes, fails with
\* MalformedPayload.
C7_OddDataRejected ==
    (/\ pc = "done"
     /\ current_chunk_id = TagData
     /\ current_chunk_size % 2 = 1
     /\ Len(Source) >= chunk_start + current_chunk_size) =>
        /\ result.tag = "Err"
        /\ ErrorClass(result.error) = "MalformedPayload"

\* C8: when parse_wav succeeds on a byte sequence of length declared outer
\* size + 8, it fails with UnexpectedEof on that sequence less its last
\* byte.
C8_TruncationDetected ==
    (/\ pc = "done"
     /\ cut = 1
     /\ Len(input) = DeclaredOuterSize + 8
     /\ ParseWav(input).tag = "Ok") =>
        /\ result.tag = "Err"
        /\ result.error.kind = "UnexpectedEof"
        /\ ErrorClass(result.error) = "TruncatedInput"

C8_Witness ==
    /\ pc = "done"
    /\ cut = 1
    /\ Len(input) = DeclaredOuterSize + 8
    /\ ParseWav(input).tag = "Ok"
    /\ result.tag = "Err"
    /\ "data.chunk_size" \in DOMAIN out
    /\ out["data.chunk_size"].n = 4

\* C9: a decoded 'data' chunk of even declared size 2n stores n samples,
\* sample i being the signed 16-bit little-endian value of body bytes 2i
\* and 2i+1, in stream order (01 00 02 00 gives [1, 2], FF FF gives [-1]).
C9_SamplesLittleEndianSigned ==
    (pc = "chunk_end" /\ prefix = "data") =>
        LET body == SubSeq(Source, chunk_start + 1,
                           chunk_start + current_chunk_size)
            s == out["data.samples"].samples
        IN  /\ out["data.samples"].kind = "I16Vec"
            /\ 2 * Len(s) = current_chunk_size
            /\ \A i \in 1..Len(s) :
                   /\ s[i] \in -32768..32767
                   /\ (s[i] - (body[2 * i - 1] + 256 * body[2 * i])) % 65536 = 0
            /\ body = << 1, 0, 2, 0 >> => s = << 1, 2 >>
            /\ body = << 255, 255 >> => s = << -1 >>

C9_Witness ==
    /\ pc = "chunk_end"
    /\ prefix = "data"
    /\ current_chunk_size = 2
    /\ out["data.samples"].samples = << -1 >>

\* C10: in every state of a parse the bytes read from the source are at
\* most the declared outer size plus 8, and the body bytes read for the
\* current chunk are at most what remaining_global allowed when its header
\* was charged.
C10_ReadsWithinBudget ==
    pc # "start" =>
        /\ pos <= DeclaredOuterSize + 8
        /\ pos - chunk_start <= chunk_budget

-----------------------------------------------------------------------------
(* C11..C20 *)

\* C11: remaining_global stays within 0..declared outer size and, while a
\* chunk is decoded, remaining_in_chunk within 0..its declared size; a
\* field that is decoded charges both counters exactly the bytes it read,
\* and a next header, pad byte or field that needs more than a counter
\* holds ends the parse with an error.
C11_CountersNeverUnderflow ==
    /\ pc # "start" => remaining_global \in 0..DeclaredOuterSize
    /\ pc \in { "field", "chunk_end" } =>
           remaining_in_chunk \in 0..current_chunk_size
    /\ (pc = "next" /\ remaining_global < 8) =>
           DoNextHeader(Cur, Source).result.tag = "Err"
    /\ (/\ pc = "chunk_end"
        /\ prefix # "header"
        /\ current_chunk_size % 2 = 1
        /\ remaining_global = 0) =>
           DoChunkEnd(Cur, Source).result.tag = "Err"
    /\ pc = "field" =>
           LET t == DoField(Cur, Source)
               used == t.pos - pos
           IN  IF t.result.tag = "Err"
               THEN t.remaining_global = remaining_global
               ELSE /\ used <= remaining_in_chunk
                    /\ used <= remaining_global
                    /\ t.remaining_in_chunk = remaining_in_chunk - used
                    /\ t.remaining_global = remaining_global - used

C11_Witness ==
    /\ Failed
    /\ result.error.msg = "chunk header overruns RIFF remaining bytes"
    /\ remaining_global \in 1..7
    /\ InnerChunk

\* C12: a detected failure ends the parse at once: the parse has returned,
\* no block of parse_wav runs after it, and what is returned is the one
\* error, with no store; before the return there is no result at all.
C12_FailFast ==
    /\ pc # "done" => result = NoResult
    /\ pc = "done" => result.tag \in { "Ok", "Err" }
    /\ result.tag = "Err" =>
           /\ pc = "done"
           /\ ~ENABLED Next
           /\ DOMAIN result = { "tag", "error" }
           /\ DOMAIN result.error = { "kind", "msg" }

C12_Witness ==
    /\ Failed
    /\ ErrorClass(result.error) = "MalformedPayload"
    /\ "fmt.sample_rate" \in DOMAIN out
    /\ "store" \notin DOMAIN result

\* C13: a parse that has read an inner chunk header whose declared size is
\* greater than remaining_global after the header's 8 bytes were charged
\* (remaining_global 0 and a non-zero size included) returns an error.
C13_OversizedChunkRejected ==
    (pc = "done" /\ InnerChunk /\ current_chunk_size > chunk_budget) =>
        result.tag = "Err"

\* C14: when a chunk decoded under a chunk spec finishes with
\* remaining_global between 1 and 7, the attempt to read the next chunk
\* header fails with BudgetExceeded, whatever the source holds.
C14_HeaderOverrunIsBudgetExceeded ==
    (/\ pc = "next"
     /\ InnerChunk
     /\ prefix # "header"
     /\ remaining_global \in 1..7) =>
        LET t == DoNextHeader(Cur, Source)
        IN  /\ t.result.tag = "Err"
            /\ ErrorClass(t.result.error) = "BudgetExceeded"
            /\ t.result.error.msg = "chunk header overruns RIFF remaining bytes"

\* C15: when a chunk of odd declared size, decoded under a chunk spec, has
\* used up the global budget, the parse fails with BudgetExceeded on the
\* pad byte, whether or not the source holds a byte to read as padding.
C15_PadOverrunIsBudgetExceeded ==
    (/\ pc = "chunk_end"
     /\ InnerChunk
     /\ prefix # "header"
     /\ current_chunk_size % 2 = 1
     /\ remaining_in_chunk = 0
     /\ remaining_global = 0) =>
        LET t == DoChunkEnd(Cur, Source)
        IN  /\ t.result.tag = "Err"
            /\ ErrorClass(t.result.error) = "BudgetExceeded"
            /\ t.result.error.msg = "ran out of RIFF budget reading padding byte"

\* C16: no chunk after the first is decoded with the container spec under
\* the prefix 'header', so header.riff_size and header.wave_id, once
\* stored, keep the values of the outer header.
C16_HeaderSpecOnlyFirst ==
    /\ (pc \in { "field", "chunk_end" } /\ InnerChunk) =>
           /\ prefix # "header"
           /\ spec # HEADER_SPEC
    /\ (pc # "start" /\ "header.riff_size" \in DOMAIN out) =>
           out["header.riff_size"] = U32(DeclaredOuterSize)
    /\ (pc # "start" /\ "header.wave_id" \in DOMAIN out) =>
           out["header.wave_id"] = Bytes4(OuterSubFormat)

\* the tags the walk dispatches to a spec of their own
Dispatched == { TagRIFF, TagFmt, TagData }

UnknownPrefix(k) == "unknown" \o ToString(k)

\* the ordinals k for which the store holds unknown<k>.<fname>
UnknownOrdinals(store, fname) ==
    { k \in 0..Len(Source) : Key(UnknownPrefix(k), fname) \in DOMAIN store }

\* C17: selecting the spec of a chunk whose tag is not dispatched takes the
\* prefix unknown<unknown_i>, none of whose keys is in the store yet, and
\* raises unknown_i by 1; a dispatched tag leaves unknown_i alone; a
\* successful parse holds unknown<k>.raw_payload for exactly the ordinals
\* k below unknown_i.
C17_UnknownOrdinals ==
    /\ (pc = "while" /\ remaining_global > 0) =>
           LET t == DoWhile(Cur)
           IN  IF current_chunk_id \notin Dispatched
               THEN /\ t.unknown_i = unknown_i + 1
                    /\ t.prefix = UnknownPrefix(unknown_i)
                    /\ t.spec = UNKNOWN_CHUNK_SPEC
                    /\ \A i \in 1..Len(t.spec) :
                           Key(t.prefix, t.spec[i][1]) \notin DOMAIN out
               ELSE /\ t.unknown_i = unknown_i
                    /\ t.prefix \in { "header", "fmt", "data" }
    /\ Succeeded =>
           /\ UnknownOrdinals(result.store, "raw_payload") = 0..(unknown_i - 1)
           /\ UnknownOrdinals(result.store, "chunk_id") = 0..(unknown_i - 1)
           /\ Cardinality(UnknownOrdinals(result.store, "raw_payload")) = unknown_i

C17_Witness ==
    /\ Succeeded
    /\ unknown_i = 2
    /\ out["unknown0.chunk_id"] = Bytes4(TagJUNK)
    /\ out["unknown1.chunk_id"] = Bytes4(TagJUNK)
    /\ "unknown1.raw_payload" \in DOMAIN result.store

\* C18: a chunk tagged LIST is decoded with the unknown-chunk spec, never
\* the list-chunk spec, under the next unknown<k> prefix, and is stored as
\* chunk_id = LIST, chunk_size = its declared size and raw_payload = its
\* declared body as one byte block.
C18_ListIsUnknown ==
    /\ (pc = "while" /\ remaining_global > 0 /\ current_chunk_id = TagLIST) =>
           LET t == DoWhile(Cur)
           IN  /\ t.spec = UNKNOWN_CHUNK_SPEC
               /\ t.spec # LIST_CHUNK_SPEC
               /\ t.prefix = UnknownPrefix(unknown_i)
               /\ t.unknown_i = unknown_i + 1
    /\ (pc = "chunk_end" /\ current_chunk_id = TagLIST) =>
           /\ Has(out, Key(prefix, "chunk_id"), Bytes4(TagLIST))
           /\ Has(out, Key(prefix, "chunk_size"), U32(current_chunk_size))
           /\ Has(out, Key(prefix, "raw_payload"),
                  Bytes(SubSeq(Source, chunk_start + 1,
                               chunk_start + current_chunk_size)))
           /\ DOMAIN out \cap { "list.chunk_id", "list.chunk_size",
                                "list.list_type", "list.entries" } = { }

C18_Witness ==
    /\ Succeeded
    /\ Has(out, "unknown1.chunk_id", Bytes4(TagLIST))
    /\ Has(out, "unknown1.chunk_size", U32(4))
    /\ Has(out, "unknown1.raw_payload", Bytes(<< 73, 78, 70, 79 >>))
    /\ Has(out, "unknown0.chunk_id", Bytes4(TagJUNK))

\* C19: the RIFF/WAVE check runs only after the walk, with remaining_global
\* at 0, and ends the parse: NotRiffWave is never returned while
\* remaining_global > 0, and a failure in any block of the walk returns
\* that block's error, never NotRiffWave, whatever the outer tags are.
C19_ValidationAfterWalk ==
    /\ FailedAs("NotRiffWave") => remaining_global = 0
    /\ pc = "final" => /\ remaining_global = 0
                       /\ DoFinalCheck(Cur).pc = "done"
    /\ pc \in { "start", "while", "field", "chunk_end", "next" } =>
           LET t == StepOf(Cur, Source)
           IN  /\ t.pc # "done" \/ t.result.tag = "Err"
               /\ t.result.tag = "Err" =>
                      ErrorClass(t.result.error) # "NotRiffWave"

C19_Witness ==
    /\ FailedAs("NotRiffWave")
    /\ "fmt.sample_rate" \in DOMAIN out
    /\ OuterSubFormat = TagXXXX
    /\ remaining_global = 0

\* C20: decoding field 0 or field 1 of a chunk's spec reads no byte, leaves
\* remaining_in_chunk and remaining_global as they were, and stores the tag
\* and the declared size that the source holds in that chunk's own header.
C20_VirtualFieldsFree ==
    (pc = "field" /\ field_idx \in { 0, 1 }) =>
        LET t == DoField(Cur, Source)
            fname == spec[field_idx + 1][1]
            hdr == SubSeq(Source, chunk_start - 7, chunk_start)
        IN  /\ spec[1][2] = "[u8;4]"
            /\ spec[2][2] = "u32"
            /\ t.result.tag # "Err"
            /\ t.pos = pos
            /\ t.remaining_in_chunk = remaining_in_chunk
            /\ t.remaining_global = remaining_global
            /\ field_idx = 0 =>
                   /\ fname = (IF prefix = "header" THEN "riff_id"
                               ELSE "chunk_id")
                   /\ Has(t.out, Key(prefix, fname),
                          Bytes4(SubSeq(hdr, 1, 4)))
            /\ field_idx = 1 =>
                   /\ fname = (IF prefix = "header" THEN "riff_size"
                               ELSE "chunk_size")
                   /\ Has(t.out, Key(prefix, fname),
                          U32(U32FromLe(SubSeq(hdr, 5, 8))))

C20_Witness ==
    /\ pc = "field"
    /\ field_idx = 2
    /\ prefix = "fmt"
    /\ pos = chunk_start
    /\ remaining_in_chunk = 16
    /\ Has(out, "fmt.chunk_id", Bytes4(TagFmt))
    /\ Has(out, "fmt.chunk_size", U32(16))

-----------------------------------------------------------------------------
(* C21..C24 *)

\* the walk is about to decode the sub-format tag of the outer container
AtOuterSubFormat ==
    pc = "field" /\ ~InnerChunk /\ prefix = "header" /\ field_idx = 2

\* C21 as stated: remaining_global starts at the declared outer size,
\* decoding the sub-format tag of the outer container neither lowers it nor
\* fails for want of budget, and the first inner chunk header is charged
\* against a remaining_global equal to the declared outer size.
C21_SubFormatNotCharged ==
    /\ (pc = "while" /\ ~InnerChunk) => remaining_global = DeclaredOuterSize
    /\ (AtOuterSubFormat /\ Len(Source) >= 12) =>
           LET t == DoField(Cur, Source)
           IN  /\ t.result.tag # "Err"
               /\ t.remaining_global = remaining_global
    /\ (pc = "next" /\ ~InnerChunk /\ prefix = "header") =>
           remaining_global = DeclaredOuterSize

\* C21 amended: the outer tag and size are read with no budget test and
\* remaining_global starts at the declared outer size; under the outer tag
\* RIFF the sub-format tag is decoded as a 4-byte field of the container
\* spec: it fails with UnexpectedEof when the declared outer size is below
\* 4, is never read when that size is 0, and otherwise lowers
\* remaining_global by 4, so the first inner chunk header is charged
\* against the declared outer size less 4.
C21_SubFormatCharged ==
    /\ (pc = "while" /\ ~InnerChunk) =>
           /\ pos = 8
           /\ remaining_global = DeclaredOuterSize
           /\ remaining_global = 0 => DoWhile(Cur).pc = "final"
    /\ AtOuterSubFormat =>
           LET t == DoField(Cur, Source)
           IN  /\ remaining_global = DeclaredOuterSize
               /\ remaining_in_chunk = DeclaredOuterSize
               /\ DeclaredOuterSize > 0
               /\ IF DeclaredOuterSize < 4 \/ Len(Source) < 12
                  THEN /\ t.result.tag = "Err"
                       /\ t.result.error.kind = "UnexpectedEof"
                       /\ "header.wave_id" \notin DOMAIN t.out
                  ELSE /\ t.result.tag # "Err"
                       /\ t.pos = 12
                       /\ t.remaining_global = DeclaredOuterSize - 4
                       /\ Has(t.out, "header.wave_id", Bytes4(OuterSubFormat))
    /\ (pc = "next" /\ ~InnerChunk /\ prefix = "header") =>
           /\ remaining_global = DeclaredOuterSize - 4
           /\ LET t == DoNextHeader(Cur, Source)
              IN  t.result.tag # "Err" =>
                      t.remaining_global = DeclaredOuterSize - 12
    /\ (pc = "while" /\ chunk_start = 20 /\ OuterTag = TagRIFF) =>
           chunk_budget = DeclaredOuterSize - 12

C21_Witness ==
    /\ pc = "while"
    /\ chunk_start = 20
    /\ OuterTag = TagRIFF
    /\ current_chunk_id = TagFmt
    /\ Has(out, "header.wave_id", Bytes4(TagWAVE))
    /\ DeclaredOuterSize = 36
    /\ remaining_global = 24

\* how far a parse state is from the return of parse_wav within one pass
\* of the walk loop: the fields still to decode, then the chunk end, the
\* next header and the final check
Rank(s) ==
    CASE s.pc = "while"     -> 13
      [] s.pc = "field"     -> 12 - s.field_idx
      [] s.pc = "chunk_end" -> 3
      [] s.pc = "next"      -> 2
      [] s.pc = "final"     -> 1
      [] OTHER              -> 0

\* a variant of the parse: a natural number that every step lowers
Measure(s, src) ==
    IF s.pc = "start"
    THEN IF Len(src) >= 8 THEN 16 * (U32FromLe(SubSeq(src, 5, 8)) + 1) ELSE 1
    ELSE 16 * s.remaining_global + Rank(s)

\* C22: parse_wav terminates: every step of a parse that has not returned
\* lowers a natural-number measure; remaining_global never increases once
\* set; a pass of the walk loop that goes on to another pass has lowered
\* remaining_global by at least 8 since it began; and the passes begun
\* number at most 1 + (declared outer size / 8).
C22_WalkTerminates ==
    /\ pc # "done" =>
           LET t == StepOf(Cur, Source)
           IN  /\ Measure(t, Source) \in Nat
               /\ Measure(t, Source) < Measure(Cur, Source)
               /\ pc # "start" => t.remaining_global <= remaining_global
               /\ t.passes \in { passes, passes + 1 }
               /\ (pc = "next" /\ t.pc = "while") =>
                      /\ t.remaining_global <= chunk_budget - 8
                      /\ t.remaining_global <= remaining_global - 8
    /\ pc # "start" =>
           /\ passes <= 1 + DeclaredOuterSize \div 8
           /\ passes > 0 =>
                  8 * (passes - 1) <= DeclaredOuterSize - remaining_global
    /\ pc = "done" => /\ result.tag \in { "Ok", "Err" }
                      /\ Measure(Cur, Source) \in Nat

C22_Witness ==
    /\ pc = "done"
    /\ passes = 3
    /\ passes = 1 + DeclaredOuterSize \div 8
    /\ current_chunk_id = TagData
    /\ pos = Len(Source)

\* C23: at every chunk boundary of the walk (a chunk header has just been
\* charged, or a chunk's fields and padding are done) remaining_global has
\* the parity of the declared outer size; a pass that ends without an
\* error has charged an even number of bytes; and parse_wav never succeeds
\* when the declared outer size is odd.
C23_ParityKept ==
    /\ pc \in { "while", "next", "final" } =>
           remaining_global % 2 = DeclaredOuterSize % 2
    /\ pc = "chunk_end" =>
           LET t == DoChunkEnd(Cur, Source)
           IN  t.result.tag # "Err" =>
                   /\ (chunk_budget - t.remaining_global) % 2 = 0
                   /\ t.remaining_global % 2 = DeclaredOuterSize % 2
    /\ (pc = "next" /\ DoNextHeader(Cur, Source).pc = "while") =>
           DoNextHeader(Cur, Source).remaining_global = remaining_global - 8
    /\ Succeeded => DeclaredOuterSize % 2 = 0
    /\ (pc = "done" /\ DeclaredOuterSize % 2 = 1) => result.tag = "Err"

C23_Witness ==
    /\ pc = "next"
    /\ DeclaredOuterSize % 2 = 1
    /\ remaining_global % 2 = 1
    /\ prefix = "unknown0"
    /\ current_chunk_size = 1
    /\ pos = chunk_start + 2

\* the field types that consume the whole remaining chunk budget
TakesAll == { "Vec<u8>", "Vec<i16>" }

\* C24: no parse fails with 'leftover bytes not parsed': the spec selected
\* for a chunk that is not decoded under the container spec ends with a
\* field that takes the whole remaining chunk budget, decoding that field
\* leaves remaining_in_chunk at 0, and remaining_in_chunk is 0 whenever the
\* leftover check runs.
C24_LeftoverUnreachable ==
    /\ Failed =>
           /\ ErrorClass(result.error) # "UnconsumedChunkBytes"
           /\ result.error.msg \in
                  { "failed to fill whole buffer",
                    "not enough bytes left in chunk for [u8;4]",
                    "not enough bytes left in chunk for u16",
                    "not enough bytes left in chunk for u32",
                    "odd number of bytes for Vec<i16>",
                    "field overran RIFF remaining bytes",
                    "ran out of RIFF budget reading padding byte",
                    "chunk header overruns RIFF remaining bytes",
                    "Not a RIFF/WAVE file" }
    /\ (pc \in { "field", "chunk_end" } /\ prefix # "header") =>
           spec[Len(spec)][2] \in TakesAll
    /\ (pc = "field" /\ prefix # "header" /\ field_idx + 1 = Len(spec)) =>
           LET t == DoField(Cur, Source)
           IN  t.result.tag # "Err" =>
                   /\ t.pc = "chunk_end"
                   /\ t.remaining_in_chunk = 0
                   /\ t.pos = chunk_start + current_chunk_size
    /\ (pc = "chunk_end" /\ prefix # "header") => remaining_in_chunk = 0

C24_Witness ==
    /\ pc = "next"
    /\ prefix = "fmt"
    /\ current_chunk_size = 18
    /\ remaining_in_chunk = 0
    /\ Has(out, "fmt.extra_bytes", Bytes(<< 0, 0 >>))
    /\ Has(out, "unknown0.raw_payload", Bytes(<< 7 >>))

====
